---- MODULE Spec2Model ----
(***************************************************************************)
(* Model of barcode/codex.py: the Code 128 encoder (Code128, Gs1_128) and  *)
(* the GS1 application-identifier layer (Gs1_128_AI).                      *)
(*                                                                         *)
(* A Python str is modelled as a sequence of characters, a character as a  *)
(* one-element name: printable characters stand for themselves, control    *)
(* characters carry their ASCII name ("SOH" is \x01) and "FNC1".."FNC4"    *)
(* are \xf1..\xf4, "GRAVE" is the backtick.  "U+00E9" is a character       *)
(* outside the Code 128 alphabet.                                          *)
(***************************************************************************)
EXTENDS Integers, Sequences, FiniteSets, TLC

Range(s) == {s[i] : i \in 1..Len(s)}

IndexOf(s, x) == CHOOSE i \in 1..Len(s) : s[i] = x

Min(a, b) == IF a < b THEN a ELSE b

\* x is computed once and named in F
With(x, F(_)) == F(x)

DigitChars == <<"0", "1", "2", "3", "4", "5", "6", "7", "8", "9">>

\* str.isdigit() on one character
IsDigit(c) == c \in Range(DigitChars)

\* int() of one decimal digit
DigitVal(c) == IndexOf(DigitChars, c) - 1

\* the decimal numeral of n written with w digits, as a str
Dec(n, w) == [i \in 1..w |-> DigitChars[((n \div (10 ^ (w - i))) % 10) + 1]]

\* all(a.isdigit() for a in s)
AllDigits(s) == \A i \in 1..Len(s) : IsDigit(s[i])

(***************************************************************************)
(* barcode/charsets/code128.py: the charset tables.                        *)
(***************************************************************************)
common ==
    <<" ", "!", "\"", "#", "$", "%", "&", "'", "(", ")", "*", "+", ",", "-", ".", "/", "0",
    "1", "2", "3", "4", "5", "6", "7", "8", "9", ":", ";", "<", "=", ">", "?", "@", "A", "B",
    "C", "D", "E", "F", "G", "H", "I", "J", "K", "L", "M", "N", "O", "P", "Q", "R", "S", "T",
    "U", "V", "W", "X", "Y", "Z", "[", "\\", "]", "^", "_">>

charset_a ==
    common \o
    <<"NUL", "SOH", "STX", "ETX", "EOT", "ENQ", "ACK", "BEL", "BS", "HT", "LF", "VT", "FF",
    "CR", "SO", "SI", "DLE", "DC1", "DC2", "DC3", "DC4", "NAK", "SYN", "ETB", "CAN", "EM",
    "SUB", "ESC", "FS", "GS", "RS", "US", "FNC3", "FNC2", "SHIFT", "TO_C", "TO_B", "FNC4",
    "FNC1">>

charset_b ==
    common \o
    <<"GRAVE", "a", "b", "c", "d", "e", "f", "g", "h", "i", "j", "k", "l", "m", "n", "o", "p", "q",
    "r", "s", "t", "u", "v", "w", "x", "y", "z", "{", "|", "}", "~", "DEL", "FNC3", "FNC2",
    "SHIFT", "TO_C", "FNC4", "TO_A", "FNC1">>

\* char in code128.A, and code128.A[char]: the position in the table
InA(char) == \E i \in 1..Len(charset_a) : charset_a[i] = char

A(char) == IndexOf(charset_a, char) - 1

\* char in code128.B, and code128.B[char]
InB(char) == \E i \in 1..Len(charset_b) : charset_b[i] = char

B(char) == IndexOf(charset_b, char) - 1

ALL == Range(common) \cup Range(charset_a) \cup Range(charset_b)

C == ("TO_B" :> 100 @@ "TO_A" :> 101 @@ "FNC1" :> 102)

START_CODES == [A |-> 103, B |-> 104, C |-> 105]

TO == (101 :> START_CODES["A"] @@ 100 :> START_CODES["B"] @@ 99 :> START_CODES["C"])

\* the symbol value of the stop pattern
STOP == 106

(***************************************************************************)
(* Code128: the pure parts of the encoder.  The scratch fields _charset    *)
(* and _buffer of the object are passed in and handed back.                *)
(***************************************************************************)

\* a list entry that is Python's None
NoneCode == -1

\* check_code: TRUE when no IllegalCharacterError is raised
check_code(code, allowed) ==
    LET wrong == SelectSeq(code, LAMBDA char : char \notin allowed)
    IN  wrong = <<>>

\* Code128._guess_charset
guess_charset(code) == IF AllDigits(code) THEN "C" ELSE "B"

\* int(self._buffer) for the two buffered digits
IntOfPair(buf) == 10 * DigitVal(buf[1]) + DigitVal(buf[2])

\* Code128._convert: the value returned (some = FALSE for None), the buffer
\* afterwards, and the exception raised by a failed table lookup
convert(charset, buffer, char) ==
    CASE charset = "A" ->
           IF InA(char)
           THEN [err |-> "", some |-> TRUE, val |-> A(char), buffer |-> buffer]
           ELSE [err |-> "KeyError", some |-> FALSE, val |-> NoneCode, buffer |-> buffer]
      [] charset = "B" ->
           IF InB(char)
           THEN [err |-> "", some |-> TRUE, val |-> B(char), buffer |-> buffer]
           ELSE [err |-> "KeyError", some |-> FALSE, val |-> NoneCode, buffer |-> buffer]
      [] charset = "C" ->
           IF char \in DOMAIN C
           THEN [err |-> "", some |-> TRUE, val |-> C[char], buffer |-> buffer]
           ELSE IF IsDigit(char)
           THEN LET nb == Append(buffer, char)
                IN  IF Len(nb) = 2
                    THEN [err |-> "", some |-> TRUE, val |-> IntOfPair(nb), buffer |-> <<>>]
                    ELSE [err |-> "", some |-> FALSE, val |-> NoneCode, buffer |-> nb]
           ELSE [err |-> "", some |-> FALSE, val |-> NoneCode, buffer |-> buffer]
      [] OTHER -> [err |-> "", some |-> FALSE, val |-> NoneCode, buffer |-> buffer]

\* the table key _new_charset converts
SwitchKey(which) ==
    CASE which = "A" -> "TO_A"
      [] which = "B" -> "TO_B"
      [] which = "C" -> "TO_C"

\* Code128._new_charset: [code], and the object's fields afterwards
new_charset(charset, buffer, which) ==
    With(convert(charset, buffer, SwitchKey(which)), LAMBDA cv :
        IF cv.err # ""
        THEN [err |-> cv.err, codes |-> <<>>, charset |-> charset, buffer |-> cv.buffer]
        ELSE [err |-> "", codes |-> <<cv.val>>, charset |-> which, buffer |-> cv.buffer])

\* the width of the window _maybe_switch_charset looks at
LookAhead == 10

\* look_next accepts a run of more than this many digits
MinDigitRun == 3

RECURSIVE LeadingDigits(_)
LeadingDigits(s) ==
    IF s = <<>> \/ ~IsDigit(Head(s)) THEN 0 ELSE 1 + LeadingDigits(Tail(s))

\* look_next inside _maybe_switch_charset; pos counts from 1
\* look_next answering True from a run of three digits on
look_next_from_three(code, pos) ==
    LeadingDigits(SubSeq(code, pos, Min(pos + LookAhead - 1, Len(code)))) > MinDigitRun - 1

look_next(code, pos) ==
    LET next_ == SubSeq(code, pos, Min(pos + LookAhead - 1, Len(code)))
    IN  LeadingDigits(next_) > MinDigitRun

\* the digit left in the buffer thrown away instead of converted
flush_buffer_dropping_digit(sw) ==
    IF sw.err # "" \/ Len(sw.buffer) # 1 THEN sw
    ELSE [err |-> "", codes |-> sw.codes, charset |-> sw.charset, buffer |-> <<>>]

\* lines 191-193: the digit left in the buffer is converted in the charset
\* that is active now, and the buffer emptied
flush_buffer(sw) ==
    IF sw.err # "" \/ Len(sw.buffer) # 1 THEN sw
    ELSE With(convert(sw.charset, sw.buffer, sw.buffer[1]), LAMBDA cv :
             [err |-> cv.err, codes |-> Append(sw.codes, cv.val), charset |-> sw.charset,
              buffer |-> IF cv.err = "" THEN <<>> ELSE cv.buffer])

\* Code128._maybe_switch_charset; pos counts from 1
maybe_switch_charset(code, pos, charset, buffer) ==
    LET char == code[pos]
        keep == [err |-> "", codes |-> <<>>, charset |-> charset, buffer |-> buffer]
    IN  IF charset = "C" /\ ~IsDigit(char)
        THEN flush_buffer(IF InB(char) THEN new_charset(charset, buffer, "B")
                          ELSE IF InA(char) THEN new_charset(charset, buffer, "A")
                          ELSE keep)
        ELSE IF charset = "B"
        THEN IF look_next(code, pos) THEN new_charset(charset, buffer, "C")
             ELSE IF ~InB(char) /\ InA(char)
             THEN new_charset(charset, buffer, "A")
             ELSE keep
        ELSE IF charset = "A"
        THEN IF look_next(code, pos) THEN new_charset(charset, buffer, "C")
             ELSE IF ~InA(char) /\ InB(char)
             THEN new_charset(charset, buffer, "B")
             ELSE keep
        ELSE keep

\* one round of the loop of Code128._build: the character at pos is encoded
build_char(code, pos, charset, buffer, encoded) ==
    With(maybe_switch_charset(code, pos, charset, buffer), LAMBDA sw :
        IF sw.err # ""
        THEN [err |-> sw.err, encoded |-> encoded, charset |-> sw.charset,
              buffer |-> sw.buffer]
        ELSE With(convert(sw.charset, sw.buffer, code[pos]), LAMBDA cv :
                 [err |-> cv.err,
                  encoded |-> IF cv.err = "" /\ cv.some
                              THEN Append(encoded \o sw.codes, cv.val)
                              ELSE encoded \o sw.codes,
                  charset |-> sw.charset, buffer |-> cv.buffer]))

\* Code128._try_to_optimize
try_to_optimize(encoded) ==
    IF Len(encoded) < 2
    THEN [err |-> "IndexError", encoded |-> encoded]
    ELSE IF encoded[2] \in DOMAIN TO
    THEN [err |-> "", encoded |-> <<TO[encoded[2]]>> \o SubSeq(encoded, 3, Len(encoded))]
    ELSE [err |-> "", encoded |-> encoded]

\* the end of _build leaving a pending digit in the buffer
build_end_keeping_buffer(charset, buffer, encoded) ==
    With(try_to_optimize(encoded), LAMBDA opt :
        [err |-> opt.err, encoded |-> opt.encoded, charset |-> charset,
         buffer |-> buffer])

\* the end of Code128._build: the buffer is looked at, the list optimized
build_end(charset, buffer, encoded) ==
    IF Len(buffer) = 1
    THEN With(new_charset(charset, buffer, "B"), LAMBDA sw :
             IF sw.err # ""
             THEN [err |-> sw.err, encoded |-> encoded, charset |-> sw.charset,
                   buffer |-> sw.buffer]
             ELSE With(convert(sw.charset, sw.buffer, sw.buffer[1]), LAMBDA cv :
                      IF cv.err # ""
                      THEN [err |-> cv.err, encoded |-> encoded \o sw.codes,
                            charset |-> sw.charset, buffer |-> cv.buffer]
                      ELSE With(try_to_optimize(Append(encoded \o sw.codes, cv.val)),
                                LAMBDA opt :
                                    [err |-> opt.err, encoded |-> opt.encoded,
                                     charset |-> sw.charset, buffer |-> <<>>])))
    ELSE With(try_to_optimize(encoded), LAMBDA opt :
             [err |-> opt.err, encoded |-> opt.encoded, charset |-> charset,
              buffer |-> buffer])

RECURSIVE SumSeq(_)
SumSeq(s) == IF s = <<>> THEN 0 ELSE Head(s) + SumSeq(Tail(s))

\* a checksum that weighs every symbol, the start code included, by its
\* 1-based position
checksum_weighing_start(encoded) ==
    SumSeq([i \in 1..Len(encoded) |-> i * encoded[i]]) % 103

\* Code128._calculate_checksum
calculate_checksum(encoded) ==
    LET cs == [i \in 1..Len(encoded) |->
                  IF i = 1 THEN encoded[1] ELSE (i - 1) * encoded[i]]
    IN  SumSeq(cs) % 103

(***************************************************************************)
(* Gs1_128 and Gs1_128_AI: the class tables.                               *)
(***************************************************************************)
FNC1_CHAR == "FNC1"

FC_CHAR == FNC1_CHAR

AI_NAME_TO_CODE ==
    (<<"S", "S", "C", "C">> :> Dec(0, 2) @@
     <<"G", "T", "I", "N">> :> Dec(1, 2) @@
     <<"C", "O", "N", "T", "E", "N", "T">> :> Dec(2, 2) @@
     <<"B", "A", "T", "C", "H", "/", "L", "O", "T">> :> Dec(10, 2) @@
     <<"B", "E", "S", "T", "_", "B", "E", "F", "O", "R", "E", ":">> :> Dec(15, 2) @@
     <<"P", "R", "O", "D", "_", "D", "A", "T", "E">> :> Dec(11, 2) @@
     <<"D", "U", "E", "_", "D", "A", "T", "E">> :> Dec(12, 2) @@
     <<"P", "A", "C", "K", "_", "D", "A", "T", "E">> :> Dec(13, 2) @@
     <<"B", "E", "S", "T", "_", "B", "E", "F", "O", "R", "E">> :> Dec(15, 2) @@
     <<"S", "E", "L", "L", "_", "B", "Y">> :> Dec(16, 2) @@
     <<"U", "S", "E", "_", "B", "Y", "_", "O", "R", "_", "E", "X", "P", "I", "R", "Y">> :> Dec(17, 2) @@
     <<"V", "A", "R", "I", "A", "N", "T">> :> Dec(20, 2) @@
     <<"S", "E", "R", "I", "A", "L">> :> Dec(21, 2) @@
     <<"C", "P", "V">> :> Dec(22, 2) @@
     <<"T", "P", "X">> :> Dec(235, 3) @@
     <<"A", "D", "D", "I", "T", "I", "O", "N", "A", "L", "_", "I", "D">> :> Dec(240, 3) @@
     <<"C", "U", "S", "T", "_", "P", "A", "R", "T", "_", "N", "O">> :> Dec(241, 3) @@
     <<"M", "T", "O", "_", "V", "A", "R", "I", "A", "N", "T">> :> Dec(242, 3) @@
     <<"P", "C", "N">> :> Dec(243, 3) @@
     <<"S", "E", "C", "O", "N", "D", "A", "R", "Y", "_", "S", "E", "R", "I", "A", "L">> :> Dec(250, 3) @@
     <<"R", "E", "F", "_", "T", "O", "_", "S", "O", "U", "R", "C", "E">> :> Dec(251, 3) @@
     <<"G", "T", "D", "I">> :> Dec(253, 3) @@
     <<"G", "L", "M", "_", "E", "X", "T", "E", "N", "S", "I", "O", "N">> :> Dec(254, 3) @@
     <<"G", "C", "N">> :> Dec(255, 3) @@
     <<"V", "A", "R", "_", "C", "O", "U", "N", "T">> :> Dec(30, 2) @@
     <<"C", "O", "U", "N", "T">> :> Dec(37, 2))

\* the dict as the source writes it, the entries with code and name
\* exchanged included
AI_WITH_DECIMAL_VALS ==
    (<<"N", "E", "T", "_", "W", "E", "I", "G", "H", "T", "_", "M">> :> <<"3", "1", "0">> @@
     <<"L", "E", "N", "G", "T", "H", "_", "m">> :> <<"3", "1", "1">> @@
     <<"W", "I", "D", "T", "H", "_", "M">> :> <<"3", "1", "2">> @@
     <<"H", "E", "I", "G", "H", "T", "_", "M">> :> <<"3", "1", "3">> @@
     <<"A", "R", "E", "A", "_", "M", "2">> :> <<"3", "1", "4">> @@
     <<"N", "E", "T", "_", "V", "O", "L", "U", "M", "E", "_", "L">> :> <<"3", "1", "5">> @@
     <<"N", "E", "T", "_", "V", "O", "L", "U", "M", "E", "_", "M", "3">> :> <<"3", "1", "6">> @@
     <<"N", "E", "T", "_", "W", "E", "I", "G", "H", "T", "_", "L", "B">> :> <<"3", "2", "0">> @@
     <<"3", "2", "1">> :> <<"L", "E", "N", "G", "T", "H", "_", "I">> @@
     <<"3", "2", "2">> :> <<"L", "E", "N", "G", "T", "H", "_", "F">> @@
     <<"3", "2", "3">> :> <<"L", "E", "N", "G", "T", "H", "_", "Y">> @@
     <<"3", "2", "4">> :> <<"W", "I", "D", "T", "H", "_", "I">> @@
     <<"3", "2", "5">> :> <<"W", "I", "D", "T", "H", "_", "F">> @@
     <<"3", "2", "6">> :> <<"W", "I", "D", "T", "H", "_", "Y">> @@
     <<"3", "2", "7">> :> <<"H", "E", "I", "G", "H", "T", "_", "I">> @@
     <<"3", "2", "8">> :> <<"H", "E", "I", "G", "H", "T", "_", "F">> @@
     <<"3", "2", "9">> :> <<"H", "E", "I", "G", "H", "T", "_", "Y">> @@
     <<"G", "R", "O", "S", "S", "_", "W", "E", "I", "G", "H", "T", "_", "K", "G">> :> <<"3", "3", "0">> @@
     <<"L", "E", "N", "G", "T", "H", "_", "M", "_", "L", "O", "G">> :> <<"3", "3", "1">> @@
     <<"W", "I", "D", "T", "H", "_", "M", "_", "L", "O", "G">> :> <<"3", "3", "2">> @@
     <<"H", "E", "I", "G", "H", "T", "_", "M", "_", "L", "O", "G">> :> <<"3", "3", "3">> @@
     <<"A", "R", "E", "A", "_", "M", "2", "_", "L", "O", "G">> :> <<"3", "3", "4">> @@
     <<"V", "O", "L", "U", "M", "E", "_", "L", "_", "L", "O", "G">> :> <<"3", "3", "5">> @@
     <<"V", "O", "L", "U", "M", "E", "_", "M", "3", "_", "L", "O", "G">> :> <<"3", "3", "6">> @@
     <<"K", "G", "_", "P", "E", "R", "_", "M", "2">> :> <<"3", "3", "7">> @@
     <<"G", "R", "O", "S", "S", "_", "W", "E", "I", "G", "H", "T", "_", "L", "B">> :> <<"3", "4", "0">> @@
     <<"L", "E", "N", "G", "T", "H", "_", "I", "_", "L", "O", "G">> :> <<"3", "4", "1">> @@
     <<"L", "E", "N", "G", "T", "H", "_", "F", "_", "L", "O", "G">> :> <<"3", "4", "2">> @@
     <<"L", "E", "N", "G", "T", "H", "_", "Y", "_", "L", "O", "G">> :> <<"3", "4", "3">> @@
     <<"W", "I", "D", "T", "H", "_", "I", "_", "L", "O", "G">> :> <<"3", "4", "4">> @@
     <<"W", "I", "D", "T", "H", "_", "F", "_", "L", "O", "G">> :> <<"3", "4", "5">> @@
     <<"W", "I", "D", "T", "H", "_", "Y", "_", "L", "O", "G">> :> <<"3", "4", "6">> @@
     <<"H", "E", "I", "G", "H", "T", "_", "I", "_", "L", "O", "G">> :> <<"3", "4", "7">> @@
     <<"H", "E", "I", "G", "H", "T", "_", "F", "_", "L", "O", "G">> :> <<"3", "4", "8">> @@
     <<"H", "E", "I", "G", "H", "T", "_", "Y", "_", "L", "O", "G">> :> <<"3", "4", "9">> @@
     <<"A", "R", "E", "A", "_", "I", "2">> :> <<"3", "5", "0">> @@
     <<"A", "R", "E", "A", "_", "F", "2">> :> <<"3", "5", "1">> @@
     <<"A", "R", "E", "A", "_", "Y", "2">> :> <<"3", "5", "2">> @@
     <<"A", "R", "E", "A", "_", "I", "2", "_", "L", "O", "G">> :> <<"3", "5", "3">> @@
     <<"A", "R", "E", "A", "_", "F", "2", "_", "L", "O", "G">> :> <<"3", "5", "4">> @@
     <<"A", "R", "E", "A", "_", "Y", "2", "_", "L", "O", "G">> :> <<"3", "5", "5">> @@
     <<"N", "E", "T", "_", "W", "E", "I", "G", "H", "T", "_", "T">> :> <<"3", "5", "6">> @@
     <<"N", "E", "T", "_", "V", "O", "L", "U", "M", "E", "_", "O", "Z">> :> <<"3", "5", "7">> @@
     <<"N", "E", "T", "_", "V", "O", "L", "U", "M", "E", "_", "Q">> :> <<"3", "6", "0">> @@
     <<"N", "E", "T", "_", "V", "O", "L", "U", "M", "E", "_", "G">> :> <<"3", "6", "1">> @@
     <<"V", "O", "L", "U", "M", "E", "_", "Q", "_", "L", "O", "G">> :> <<"3", "6", "2">> @@
     <<"V", "O", "L", "U", "M", "E", "_", "G", "_", "L", "O", "G">> :> <<"3", "6", "3">> @@
     <<"V", "O", "L", "U", "M", "E", "_", "I", "3">> :> <<"3", "6", "4">> @@
     <<"V", "O", "L", "U", "M", "E", "_", "F", "3">> :> <<"3", "6", "5">> @@
     <<"V", "O", "L", "U", "M", "E", "_", "Y", "3">> :> <<"3", "6", "6">> @@
     <<"V", "O", "L", "U", "M", "E", "_", "I", "3", "_", "L", "O", "G">> :> <<"3", "6", "7">> @@
     <<"V", "O", "L", "U", "M", "E", "_", "F", "3", "_", "L", "O", "G">> :> <<"3", "6", "8">> @@
     <<"V", "O", "L", "U", "M", "E", "_", "Y", "3", "_", "L", "O", "G">> :> <<"3", "6", "9">> @@
     <<"A", "M", "O", "U", "N", "T", "_", "C", "O", "M", "M", "O", "N", "_", "C", "U", "R", "R", "E", "N", "C", "Y">> :> <<"3", "9", "0">> @@
     <<"A", "M", "O", "U", "N", "T", "_", "C", "U", "R", "R", "E", "N", "C", "Y", "_", "S", "P", "E", "C">> :> <<"3", "9", "1">> @@
     <<"P", "R", "I", "C", "E", "_", "C", "O", "M", "M", "O", "N", "_", "C", "U", "R", "R", "E", "N", "C", "Y">> :> <<"3", "9", "2">> @@
     <<"P", "R", "I", "C", "E", "_", "C", "U", "R", "R", "E", "N", "C", "Y", "_", "S", "P", "E", "C">> :> <<"3", "9", "3">> @@
     <<"P", "R", "C", "N", "T", "_", "O", "F", "F">> :> <<"3", "9", "4">> @@
     <<"P", "R", "I", "C", "E", "_", "U", "O", "M">> :> <<"3", "9", "5">>)

AI_WITH_FNC1 ==
    {Dec(10, 2), Dec(21, 2), Dec(22, 2), Dec(30, 2), Dec(37, 2), Dec(90, 2), Dec(91, 2),
     Dec(92, 2), Dec(93, 2), Dec(94, 2), Dec(95, 2), Dec(96, 2), Dec(97, 2), Dec(98, 2),
     Dec(99, 2), Dec(235, 3), Dec(240, 3), Dec(241, 3), Dec(242, 3), Dec(243, 3),
     Dec(250, 3), Dec(251, 3), Dec(253, 3), Dec(254, 3), Dec(255, 3), Dec(390, 3),
     Dec(391, 3), Dec(392, 3), Dec(393, 3), Dec(394, 3), Dec(395, 3), Dec(400, 3),
     Dec(401, 3), Dec(402, 3), Dec(403, 3), Dec(420, 3), Dec(421, 3), Dec(422, 3),
     Dec(423, 3), Dec(424, 3), Dec(425, 3), Dec(426, 3), Dec(427, 3), Dec(703, 3),
     Dec(710, 3), Dec(711, 3), Dec(712, 3), Dec(713, 3), Dec(714, 3), Dec(715, 3),
     Dec(723, 3), Dec(4300, 4), Dec(4301, 4), Dec(4302, 4), Dec(4303, 4), Dec(4304, 4),
     Dec(4305, 4), Dec(4306, 4), Dec(4307, 4), Dec(4308, 4), Dec(4309, 4), Dec(4330, 4),
     Dec(4331, 4), Dec(4332, 4), Dec(4333, 4), Dec(7001, 4), Dec(7002, 4), Dec(7003, 4),
     Dec(7004, 4), Dec(7005, 4), Dec(7006, 4), Dec(7007, 4), Dec(7008, 4), Dec(7009, 4),
     Dec(7010, 4), Dec(7011, 4), Dec(7020, 4), Dec(7021, 4), Dec(7022, 4), Dec(7023, 4),
     Dec(7040, 4), Dec(7240, 4), Dec(7241, 4), Dec(7242, 4), Dec(8001, 4), Dec(8002, 4),
     Dec(8003, 4), Dec(8004, 4), Dec(8005, 4), Dec(8006, 4), Dec(8007, 4), Dec(8008, 4),
     Dec(8009, 4), Dec(8010, 4), Dec(8011, 4), Dec(8012, 4), Dec(8013, 4), Dec(8017, 4),
     Dec(8018, 4), Dec(8019, 4), Dec(8020, 4), Dec(8026, 4), Dec(8030, 4), Dec(8110, 4),
     Dec(8111, 4), Dec(8112, 4), Dec(8200, 4)}

AI_VS_FIXED_LENGTH ==
    (Dec(0, 2) :> 18 @@ Dec(1, 2) :> 14 @@ Dec(2, 2) :> 14 @@ Dec(11, 2) :> 6 @@
     Dec(12, 2) :> 6 @@ Dec(13, 2) :> 6 @@ Dec(15, 2) :> 6 @@ Dec(16, 2) :> 6 @@
     Dec(17, 2) :> 6 @@ Dec(20, 2) :> 2)

AI_VS_FIXED_LENGTH_WITH_DECIMAL ==
    {Dec(310, 3), Dec(311, 3), Dec(312, 3), Dec(313, 3), Dec(314, 3), Dec(315, 3),
     Dec(316, 3), Dec(320, 3), Dec(321, 3), Dec(322, 3), Dec(323, 3), Dec(324, 3),
     Dec(325, 3), Dec(326, 3), Dec(327, 3), Dec(328, 3), Dec(329, 3), Dec(330, 3),
     Dec(331, 3), Dec(332, 3), Dec(333, 3), Dec(334, 3), Dec(335, 3), Dec(336, 3),
     Dec(337, 3)}

\* the AIs get_code_and_val hands to is_date_format_correct
DATE_AIS == {Dec(11, 2), Dec(12, 2), Dec(13, 2), Dec(15, 2), Dec(16, 2), Dec(17, 2)}

(***************************************************************************)
(* Gs1_128_AI: the pure parts.  A Python tuple is a record holding its     *)
(* items; None is the record with none = TRUE.                             *)
(***************************************************************************)
Tuple(items) == [none |-> FALSE, items |-> items]

None == [none |-> TRUE, items |-> <<>>]

\* str.split(sep) for a one-character separator: the list of the fields
RECURSIVE Split(_, _)
Split(s, sep) ==
    IF sep \notin Range(s) THEN <<s>>
    ELSE LET k == CHOOSE i \in 1..Len(s) :
                      s[i] = sep /\ \A j \in 1..(i - 1) : s[j] # sep
         IN  <<SubSeq(s, 1, k - 1)>> \o Split(SubSeq(s, k + 1, Len(s)), sep)

\* str.split(sep, 1): at most one cut, at the first separator
Split1(s, sep) ==
    IF sep \notin Range(s) THEN <<s>>
    ELSE LET k == CHOOSE i \in 1..Len(s) :
                      s[i] = sep /\ \A j \in 1..(i - 1) : s[j] # sep
         IN  <<SubSeq(s, 1, k - 1), SubSeq(s, k + 1, Len(s))>>

\* s[0:n]
Prefix(s, n) == SubSeq(s, 1, Min(n, Len(s)))

\* the str of n zeros
Zeros(n) == [i \in 1..n |-> "0"]

\* str.zfill(width) of an unsigned numeral
zfill(s, width) == IF Len(s) < width THEN Zeros(width - Len(s)) \o s ELSE s

\* str(n) for a natural number
RECURSIVE StrOfNat(_)
StrOfNat(n) == IF n < 10 THEN <<DigitChars[n + 1]>>
               ELSE Append(StrOfNat(n \div 10), DigitChars[(n % 10) + 1])

Count(s, c) == Cardinality({i \in 1..Len(s) : s[i] = c})

\* float(val) raises no ValueError; val holds digits, '.', and characters
\* that occur in no float literal
FloatParses(val) ==
    /\ \A i \in 1..Len(val) : IsDigit(val[i]) \/ val[i] = "."
    /\ Count(val, ".") <= 1
    /\ \E i \in 1..Len(val) : IsDigit(val[i])

\* Gs1_128_AI.check_if_code_correct
check_if_code_correct(code_with_brackets) ==
    IF code_with_brackets = <<>> THEN FALSE
    ELSE LET in_bracket == Count(code_with_brackets, "(") - Count(code_with_brackets, ")")
         IN  in_bracket = 0

\* a parse that keeps the empty field in front of the first '('
brackets_keeping_empty(code_with_brackets) ==
    [i \in 1..Len(Split(code_with_brackets, "(")) |->
        Tuple(Split(Split(code_with_brackets, "(")[i], ")"))]

\* Gs1_128_AI.get_ai_and_vals_from_brackets
get_ai_and_vals_from_brackets(code_with_brackets) ==
    LET parts == SelectSeq(Split(code_with_brackets, "("), LAMBDA ais_vals : ais_vals # <<>>)
    IN  [i \in 1..Len(parts) |-> Tuple(Split(parts[i], ")"))]

\* a decimal value whose fourth AI digit counts the fraction digits given
decimal_value_counting_given(ai, val, parts) ==
    Tuple(<<ai \o StrOfNat(Min(Len(parts[2]), 9)),
            Prefix(parts[1] \o parts[2] \o Zeros(6), 6)>>)

\* lines 424-433: the value has a '.', parts is val.split('.', 1)
decimal_value(ai, val, parts) ==
    LET main_part == parts[1]
        fraction_part == parts[2]
    IN  IF Len(val) < 7
        THEN Tuple(<<ai \o StrOfNat(Len(fraction_part) + (7 - Len(val))),
                     main_part \o fraction_part \o Zeros(7 - Len(val))>>)
        ELSE IF Len(val) > 7
        THEN IF Len(main_part) > 6
             THEN Tuple(<<Append(ai, "0"), Prefix(main_part, 6)>>)
             ELSE Tuple(<<ai \o StrOfNat(Len(Prefix(fraction_part, 6 - Len(main_part)))),
                          main_part \o Prefix(fraction_part, 6 - Len(main_part))>>)
        ELSE Tuple(<<ai \o StrOfNat(Len(fraction_part)), main_part \o fraction_part>>)

\* Gs1_128_AI.get_val_for_ai_with_fixed_length_decimals
get_val_for_ai_with_fixed_length_decimals(ai, val) ==
    IF Prefix(ai, 3) \notin AI_VS_FIXED_LENGTH_WITH_DECIMAL THEN Tuple(<<ai, val>>)
    ELSE IF ~FloatParses(val) THEN Tuple(<<Append(ai, "0"), val>>)
    ELSE IF Len(ai) = 3
    THEN IF "." \notin Range(val)
         THEN Tuple(<<Append(ai, "0"), Prefix(zfill(val, 6), 6)>>)
         ELSE decimal_value(ai, val, Split1(val, "."))
    ELSE IF Len(ai) = 4 THEN None
    ELSE Tuple(<<ai, val>>)

\* Gs1_128_AI.get_code_and_val: the value returned, or the exception raised.
\* is_date_format_correct is a staticmethod declared with (self, date): the
\* call self.is_date_format_correct(val) binds val to self and raises
\* TypeError for the missing argument.
get_code_and_val(ai, val) ==
    LET code == IF ai \in DOMAIN AI_NAME_TO_CODE THEN AI_NAME_TO_CODE[ai] ELSE ai
    IN  IF code \in DOMAIN AI_VS_FIXED_LENGTH
        THEN IF Len(val) # AI_VS_FIXED_LENGTH[code] /\ code \in DATE_AIS
             THEN [err |-> "TypeError", ret |-> None]
             ELSE [err |-> "", ret |-> Tuple(<<code, val>>)]
        ELSE IF 3 <= Len(code) /\ Len(code) <= 4
                /\ Prefix(code, 3) \in AI_VS_FIXED_LENGTH_WITH_DECIMAL
        THEN [err |-> "", ret |-> get_val_for_ai_with_fixed_length_decimals(code, val)]
        ELSE [err |-> "", ret |-> Tuple(<<code, val>>)]

\* an is_fnc1_required that takes the fixed-length AIs for separated ones too
is_fnc1_required_or_fixed(ai) == ai \in AI_WITH_FNC1 \cup DOMAIN AI_VS_FIXED_LENGTH

\* Gs1_128_AI.is_fnc1_required
is_fnc1_required(ai) == ai \in AI_WITH_FNC1

\* the loop of create_code over the pairs from position i on; ais_with and
\* ais_without are ais_with_nfc1 and ais_without_nfc1
RECURSIVE create_code_loop(_, _, _, _, _)
create_code_loop(ai_value, sorted_ais, i, ais_with, ais_without) ==
    IF i > Len(ai_value) THEN [err |-> "", ais_with |-> ais_with, ais_without |-> ais_without]
    ELSE IF ai_value[i].none THEN [err |-> "TypeError", ais_with |-> ais_with, ais_without |-> ais_without]
    ELSE IF Len(ai_value[i].items) # 2
    THEN [err |-> "ValueError", ais_with |-> ais_with, ais_without |-> ais_without]
    ELSE LET ai == ai_value[i].items[1]
             value == ai_value[i].items[2]
         IN  IF sorted_ais
             THEN IF is_fnc1_required(ai)
                  THEN create_code_loop(ai_value, sorted_ais, i + 1,
                                        Append(ais_with \o ai \o value, FC_CHAR), ais_without)
                  ELSE create_code_loop(ai_value, sorted_ais, i + 1,
                                        ais_with, ais_without \o ai \o value)
             ELSE create_code_loop(ai_value, sorted_ais, i + 1,
                                   IF is_fnc1_required(ai)
                                   THEN Append(ais_with \o ai \o value, FC_CHAR)
                                   ELSE ais_with \o ai \o value,
                                   ais_without)

\* a create_code that keeps the separator after the last pair
create_code_keeping_separator(ai_value, sorted_ais) ==
    With(create_code_loop(ai_value, sorted_ais, 1, <<>>, <<>>), LAMBDA acc :
        [err |-> acc.err,
         code |-> IF acc.err # "" THEN <<>>
                  ELSE <<FNC1_CHAR>> \o acc.ais_without \o acc.ais_with])

\* Gs1_128_AI.create_code: the logical string, or the exception raised
create_code(ai_value, sorted_ais) ==
    With(create_code_loop(ai_value, sorted_ais, 1, <<>>, <<>>), LAMBDA acc :
        IF acc.err # "" THEN [err |-> acc.err, code |-> <<>>]
        ELSE [err |-> "",
              code |-> <<FNC1_CHAR>> \o acc.ais_without
                       \o (IF acc.ais_with # <<>> /\ acc.ais_with[Len(acc.ais_with)] = FC_CHAR
                           THEN SubSeq(acc.ais_with, 1, Len(acc.ais_with) - 1)
                           ELSE acc.ais_with)])

(***************************************************************************)
(* The constructors.                                                       *)
(***************************************************************************)
NoStr == [none |-> TRUE, val |-> <<>>]

SomeStr(s) == [none |-> FALSE, val |-> s]

\* s[1:]
Rest(s) == IF s = <<>> THEN <<>> ELSE Tail(s)

\* Code128.__init__: the fields, and the exception check_code raises
Code128_init(code_) ==
    [raised |-> IF check_code(code_, ALL) THEN "" ELSE "IllegalCharacterError",
     code |-> code_, charset |-> guess_charset(code_), buffer |-> <<>>,
     sorted_ais |-> FALSE, literal_code |-> NoStr, ai_value |-> None]

\* Gs1_128.__init__
Gs1_128_init(code_) == Code128_init(<<FNC1_CHAR>> \o code_)

\* lines 346-348: the get_code_and_val results for a list of input pairs
ListAiValue(pairs) == [i \in 1..Len(pairs) |-> get_code_and_val(pairs[i][1], pairs[i][2])]

\* lines 352-357: self.code is made and handed to Code128.__init__
Gs1_128_AI_code(sorted_, literal, ai_val, made) ==
    With(Code128_init(made.code), LAMBDA base :
        IF made.err # ""
        THEN [base EXCEPT !.raised = made.err, !.sorted_ais = sorted_,
                          !.literal_code = literal, !.ai_value = ai_val]
        ELSE IF base.raised # ""
        THEN [base EXCEPT !.sorted_ais = sorted_, !.literal_code = literal,
                          !.ai_value = ai_val]
        ELSE [base EXCEPT !.charset = guess_charset(Rest(base.code)),
                          !.sorted_ais = sorted_, !.literal_code = literal,
                          !.ai_value = ai_val])

\* Gs1_128_AI.__init__ for a str
Gs1_128_AI_init_str(code_, sorted_) ==
    IF check_if_code_correct(code_)
    THEN With(Tuple(get_ai_and_vals_from_brackets(code_)), LAMBDA ai_val :
             Gs1_128_AI_code(sorted_, NoStr, ai_val, create_code(ai_val.items, sorted_)))
    ELSE Gs1_128_AI_code(sorted_, SomeStr(code_), None, [err |-> "", code |-> code_])

\* Gs1_128_AI.__init__ for a list or tuple of pairs; the first exception of
\* get_code_and_val ends the constructor
Gs1_128_AI_init_list(code_, sorted_) ==
    With(ListAiValue(code_), LAMBDA got :
        IF \E i \in 1..Len(got) : got[i].err # ""
        THEN [Code128_init(<<>>) EXCEPT
                 !.raised = got[CHOOSE i \in 1..Len(got) :
                                   got[i].err # "" /\ \A j \in 1..(i - 1) : got[j].err = ""].err,
                 !.sorted_ais = sorted_]
        ELSE With(Tuple([i \in 1..Len(got) |-> got[i].ret]), LAMBDA ai_val :
                 Gs1_128_AI_code(sorted_, NoStr, ai_val, create_code(ai_val.items, sorted_))))

(***************************************************************************)
(* The inputs.                                                             *)
(***************************************************************************)
\* longest code handed to Code128 and Gs1_128
MaxLen == 4

\* longest pair list handed to Gs1_128_AI
MaxPairs == 2

\* build passes run on one object
MaxPasses == 2

StrUpTo(S, n) == UNION {[1..k -> S] : k \in 0..n}

\* two digits, a character of charset B only, one of charset A only, and a
\* function character that both hold
Alphabet == {"1", "9", "a", "SOH", "FNC4"}

\* codes with a character outside the charsets
IllegalCodes == {<<"U+00E9">>, <<"1", "U+00E9">>, <<"U+00E9", "a">>}

\* codes that leave charset C: towards A and towards B, with and without a
\* digit pending, and at the end of the input
LongCodes ==
    {<<"1", "9", "1", "9", "SOH">>, <<"1", "9", "1", "9", "1", "SOH">>,
     <<"1", "9", "1", "9", "1", "a">>, <<"a", "1", "9", "1", "9", "1">>}

Codes == StrUpTo(Alphabet, MaxLen) \cup IllegalCodes \cup LongCodes

InputAIs == {Dec(1, 2), Dec(10, 2)}

InputValues == {<<>>, <<"9">>, <<"1", "9">>, <<"9", "a">>}

InputPairs == InputAIs \X InputValues

PairLists == StrUpTo(InputPairs, MaxPairs)

TestCode1 ==
    <<"(", "0", "1", ")", "0", "1", "2", "3", "4", "5", "6", "7", "8", "9", "1", "0", "1", "1",
    "(", "1", "1", ")", "2", "0", "0", "6", "2", "2", "(", "1", "7", ")", "2", "4", "0", "6",
    "2", "2", "(", "2", "1", ")", "8", "8", "8", "8", "8", "8", "8", "8">>

TestCode4 ==
    <<"(", "0", "1", ")", "0", "1", "2", "3", "4", "5", "6", "7", "8", "9", "1", "0", "1", "1",
    "(", "1", "1", ")", "2", "0", "0", "6", "2", "2", "(", "1", "0", ")", "1", "2", "3", "4",
    "(", "2", "1", ")", "1", "2", "3", "4">>

TestCode3 ==
    <<"(", "0", "1", ")", "0", "1", "2", "3", "4", "5", "6", "7", "8", "9", "1", "0", "1", "1",
    "(", "1", "1", ")", "2", "0", "0", "6", "2", "2", "(", "1", "0", ")", "1", "2", "3", "4",
    "5", "(", "2", "1", ")", "1", "2", "3", "4">>

\* bracket strings handed to Gs1_128_AI: those of tests/test_gs1_128_ai.py,
\* and short ones, the last two with unbalanced brackets
BracketInputs ==
    {TestCode1, TestCode3, TestCode4,
     <<"(", "0", "1", ")", "1", "9", "(", "1", "0", ")", "9">>,
     <<"(", "1", "0", ")", "1", "9", "(", "1", "0", ")", "1", "9", "9", "1">>,
     <<"(", "(", "0", "1", ")", "1", "9">>,
     <<"(", "1", "9", "1", "9">>}

(***************************************************************************)
(* The state: one encoder object and the build pass running on it.         *)
(***************************************************************************)
VARIABLES
    kind,          \* the class of the object
    raised,        \* the exception its constructor raised, "" for none
    code,          \* self.code
    charset,       \* self._charset
    buffer,        \* self._buffer
    sorted_ais,    \* self.sorted_ais
    literal_code,  \* self.literal_code
    ai_value,      \* self.ai_value
    pc,            \* "idle", "loop" (inside _build), "built" (_build returned)
    pos,           \* the index i of the loop of _build, counted from 1
    encoded,       \* the list encoded of the pass
    returns,       \* what each finished _build returned or raised, in order
    symbols,       \* the symbol values of the last build()
    call,          \* a call of one of the helper methods of Gs1_128_AI
    objects,       \* the encoder objects that threads share: code, _charset, _buffer
    threads        \* the _build pass of each thread: its object and its locals

vars == <<kind, raised, code, charset, buffer, sorted_ais, literal_code, ai_value,
          pc, pos, encoded, returns, symbols, call, objects, threads>>

\* the objects and passes of concurrent callers
concurrent == <<objects, threads>>

\* what a build pass leaves alone
fields == <<kind, raised, code, sorted_ais, literal_code, ai_value, call, concurrent>>

\* the object and its passes, which a helper method leaves alone
object == <<kind, raised, code, charset, buffer, sorted_ais, literal_code, ai_value,
            pc, pos, encoded, returns, symbols, concurrent>>

\* no helper method is called
NoCall ==
    [op |-> "none", ai |-> <<>>, val |-> <<>>, pairs |-> <<>>, str |-> <<>>,
     done |-> FALSE, result |-> <<>>]

\* the state right after the constructor returned or raised
Constructed(kind_, obj) ==
    /\ kind = kind_
    /\ raised = obj.raised
    /\ code = obj.code
    /\ charset = obj.charset
    /\ buffer = obj.buffer
    /\ sorted_ais = obj.sorted_ais
    /\ literal_code = obj.literal_code
    /\ ai_value = obj.ai_value
    /\ pc = "idle"
    /\ pos = 0
    /\ encoded = <<>>
    /\ returns = <<>>
    /\ symbols = <<>>
    /\ objects = <<>>
    /\ threads = <<>>

Init ==
    /\ call = NoCall
    /\ \/ \E c \in Codes : Constructed("Code128", Code128_init(c))
       \/ \E c \in Codes : Constructed("Gs1_128", Gs1_128_init(c))
       \/ \E l \in PairLists, s \in BOOLEAN :
              Constructed("Gs1_128_AI", Gs1_128_AI_init_list(l, s))
       \/ \E b \in BracketInputs, s \in BOOLEAN :
              Constructed("Gs1_128_AI", Gs1_128_AI_init_str(b, s))

\* _build is entered: line 236
BuildStart ==
    /\ raised = ""
    /\ pc = "idle"
    /\ Len(returns) < MaxPasses
    /\ pc' = "loop"
    /\ pos' = 1
    /\ encoded' = <<START_CODES[charset]>>
    /\ UNCHANGED <<fields, charset, buffer, returns, symbols>>

\* one round of the loop of _build: lines 237-242
BuildChar ==
    /\ pc = "loop"
    /\ pos <= Len(code)
    /\ With(build_char(code, pos, charset, buffer, encoded), LAMBDA r :
           /\ charset' = r.charset
           /\ buffer' = r.buffer
           /\ encoded' = r.encoded
           /\ IF r.err = ""
              THEN /\ pos' = pos + 1
                   /\ UNCHANGED <<pc, returns>>
              ELSE /\ pc' = "idle"
                   /\ returns' = Append(returns, [err |-> r.err, encoded |-> <<>>])
                   /\ UNCHANGED pos)
    /\ UNCHANGED <<fields, symbols>>

\* the loop of _build is over: lines 243-248
BuildEnd ==
    /\ pc = "loop"
    /\ pos > Len(code)
    /\ With(build_end(charset, buffer, encoded), LAMBDA r :
           /\ charset' = r.charset
           /\ buffer' = r.buffer
           /\ encoded' = r.encoded
           /\ IF r.err = ""
              THEN /\ pc' = "built"
                   /\ UNCHANGED returns
              ELSE /\ pc' = "idle"
                   /\ returns' = Append(returns, [err |-> r.err, encoded |-> <<>>]))
    /\ UNCHANGED <<fields, pos, symbols>>

\* the caller was _build() itself or the property encoded: the list is the result
Encoded ==
    /\ pc = "built"
    /\ pc' = "idle"
    /\ returns' = Append(returns, [err |-> "", encoded |-> encoded])
    /\ UNCHANGED <<fields, charset, buffer, pos, encoded, symbols>>

\* the caller was build(): lines 251-258, the checksum and the stop pattern
Build ==
    /\ pc = "built"
    /\ pc' = "idle"
    /\ returns' = Append(returns, [err |-> "", encoded |-> encoded])
    /\ symbols' = Append(Append(encoded, calculate_checksum(encoded)), STOP)
    /\ UNCHANGED <<fields, charset, buffer, pos, encoded>>

Next == BuildStart \/ BuildChar \/ BuildEnd \/ Encoded \/ Build

Spec == Init /\ [][Next]_vars

(***************************************************************************)
(* The claims about the encoder, checked under Spec.                       *)
(***************************************************************************)

\* a decoder of Code 128 symbol values: switch codes change the charset,
\* a charset-C value expands to two digits, other values are looked up
RECURSIVE DecodeFrom(_, _)
DecodeFrom(cs, s) ==
    IF s = <<>> THEN <<>>
    ELSE IF cs = "C"
    THEN IF Head(s) = 100 THEN DecodeFrom("B", Tail(s))
         ELSE IF Head(s) = 101 THEN DecodeFrom("A", Tail(s))
         ELSE IF Head(s) = 102 THEN <<"FNC1">> \o DecodeFrom("C", Tail(s))
         ELSE Dec(Head(s), 2) \o DecodeFrom("C", Tail(s))
    ELSE IF Head(s) = 99 THEN DecodeFrom("C", Tail(s))
    ELSE IF cs = "B"
    THEN IF Head(s) = 101 THEN DecodeFrom("A", Tail(s))
         ELSE <<charset_b[Head(s) + 1]>> \o DecodeFrom("B", Tail(s))
    ELSE IF Head(s) = 100 THEN DecodeFrom("B", Tail(s))
         ELSE <<charset_a[Head(s) + 1]>> \o DecodeFrom("A", Tail(s))

Decode(s) ==
    DecodeFrom(IF Head(s) = 103 THEN "A" ELSE IF Head(s) = 104 THEN "B" ELSE "C", Tail(s))

\* C1: decoding the list that _build returns on a freshly constructed
\* Code128 gives back the string that was encoded.
C1_RoundTrip ==
    (kind = "Code128" /\ Len(returns) >= 1 /\ returns[1].err = "")
        => Decode(returns[1].encoded) = code

\* the list C2 describes for a logical string of FNC1 characters and digit
\* pairs: START-C, then 102 for each FNC1 and one value for each pair
RECURSIVE PackedInC(_)
PackedInC(s) ==
    IF s = <<>> THEN <<>>
    ELSE IF Head(s) = FNC1_CHAR THEN <<102>> \o PackedInC(Tail(s))
    ELSE <<10 * DigitVal(s[1]) + DigitVal(s[2])>> \o PackedInC(Tail(Tail(s)))

\* every run of digits between FNC1 characters has even length
RECURSIVE EvenDigitRuns(_)
EvenDigitRuns(s) ==
    IF s = <<>> THEN TRUE
    ELSE IF Head(s) = FNC1_CHAR THEN EvenDigitRuns(Tail(s))
    ELSE /\ Len(s) >= 2
         /\ IsDigit(s[1])
         /\ IsDigit(s[2])
         /\ EvenDigitRuns(Tail(Tail(s)))

\* C2: for a Gs1_128_AI whose AIs and values are all digits (paired up), the
\* first _build returns START-C 105, then 102 for every FNC1 character and
\* the digits packed pairwise, with no switch code.
C2_Fnc1KeptInC ==
    (/\ kind = "Gs1_128_AI"
     /\ literal_code.none
     /\ Len(returns) >= 1
     /\ Len(code) >= 3
     /\ EvenDigitRuns(code))
        => /\ returns[1].err = ""
           /\ returns[1].encoded = <<105>> \o PackedInC(code)

\* C3: every _build on one object returns what the first one returned.
C3_Deterministic ==
    \A i \in 1..Len(returns) : returns[i] = returns[1]

\* C4: the constructor of Code128 raises IllegalCharacterError exactly for a
\* code with a character outside the charsets and nothing else, no build
\* raises, and build yields start code, body, checksum and stop, all values
\* in 0..106.
C4_OnlyIllegalCharacter ==
    kind = "Code128" =>
        /\ raised = (IF \E i \in 1..Len(code) : code[i] \notin ALL
                     THEN "IllegalCharacterError" ELSE "")
        /\ \A i \in 1..Len(returns) :
               /\ returns[i].err = ""
               /\ Len(returns[i].encoded) >= 1
               /\ returns[i].encoded[1] \in {103, 104, 105}
        /\ symbols # <<>> =>
               /\ Len(symbols) >= 3
               /\ symbols[Len(symbols)] = STOP
               /\ \A i \in 1..Len(symbols) : symbols[i] \in 0..106

\* v[0] + sum over i >= 1 of i * v[i], for v the 0-based list s
RECURSIVE WeightedFrom(_, _)
WeightedFrom(s, i) ==
    IF i > Len(s) THEN 0 ELSE (i - 1) * s[i] + WeightedFrom(s, i + 1)

WeightedSum(s) == s[1] + WeightedFrom(s, 2)

\* C5: the symbol that build appends after the list returned by _build is
\* (v[0] + sum over i >= 1 of i * v[i]) mod 103 of that list, and lies in
\* 0..102.
C5_Checksum ==
    symbols # <<>> =>
        /\ Len(symbols) >= 3
        /\ \E i \in 1..Len(returns) :
               /\ returns[i].err = ""
               /\ returns[i].encoded = SubSeq(symbols, 1, Len(symbols) - 2)
               /\ symbols[Len(symbols) - 1] = WeightedSum(returns[i].encoded) % 103
        /\ symbols[Len(symbols) - 1] \in 0..102

\* a build has appended a checksum to a list with at least two body symbols
C5_Witness ==
    /\ Len(symbols) >= 5
    /\ symbols[Len(symbols) - 1] # symbols[1]

\* the object exists and no build pass has started yet
BeforeFirstPass == raised = "" /\ pc = "idle" /\ returns = <<>>

\* the input the claim calls digits only: the code of a Code128, the logical
\* string after its leading FNC1 character of a Gs1_128_AI
DigitsOnlyInput ==
    \/ kind = "Code128" /\ AllDigits(code)
    \/ /\ kind = "Gs1_128_AI"
       /\ code # <<>>
       /\ Head(code) = FNC1_CHAR
       /\ AllDigits(Tail(code))

\* C6: at the start of the first build pass the charset is C for a digits
\* only input and B for every other input.
C6_InitialCharset ==
    BeforeFirstPass => charset = (IF DigitsOnlyInput THEN "C" ELSE "B")

\* the code has four consecutive digits somewhere
HasRun4(s) ==
    \E i \in 1..(Len(s) - 3) : \A j \in i..(i + 3) : IsDigit(s[j])

\* C7: on a code without a run of 4 or more digits no step of a build pass
\* moves the charset from A or B to C or emits the switch code 99.
C7_NoSwitchToC ==
    [][(~HasRun4(code) /\ charset \in {"A", "B"})
          => /\ charset' # "C"
             /\ Len(encoded') > Len(encoded)
                   => \A i \in (Len(encoded) + 1)..Len(encoded') : encoded'[i] # 99]_vars

\* a pass has gone over a run of exactly three digits in charset B
C7_Witness ==
    /\ ~HasRun4(code)
    /\ \E i \in 1..(Len(code) - 2) : \A j \in i..(i + 2) : IsDigit(code[j])
    /\ ~IsDigit(code[1])
    /\ pc = "built"
    /\ charset = "B"

\* the symbol of a character in charset A or B
SymbolIn(which, char) == IF which = "B" THEN B(char) ELSE A(char)

\* the charset a non-digit character sends the encoder to from C
Target(char) == IF InB(char) THEN "B" ELSE "A"

\* the code that switches to charset A or B
SwitchTo(which) == IF which = "B" THEN 100 ELSE 101

\* a round of the loop meets a non-digit character while the charset is C
LeavesC == pc = "loop" /\ pos <= Len(code) /\ charset = "C" /\ ~IsDigit(code[pos])

\* the input is over and one digit is pending
EndsPending == pc = "loop" /\ pos > Len(code) /\ Len(buffer) = 1

Returned ==
    \/ pc = "built"
    \/ pc = "idle" /\ returns # <<>> /\ returns[Len(returns)].err = ""

\* what the buffer may hold between two characters
PendingDigit ==
    /\ Len(buffer) <= 1
    /\ buffer # <<>> => IsDigit(buffer[1]) /\ charset = "C"
    /\ Returned => buffer = <<>>

\* a round of the loop meets a digit while one digit is pending
SecondDigit == pc = "loop" /\ pos <= Len(code) /\ Len(buffer) = 1 /\ IsDigit(code[pos])

\* C19: between two characters of a pass the buffer holds at most one digit
\* and only while the charset is C, it is empty whenever _build has returned,
\* and a second digit flushes it: the step appends the one symbol of the pair
\* and empties the buffer.
C19_PendingDigit ==
    /\ []PendingDigit
    /\ [][SecondDigit =>
            /\ buffer' = <<>>
            /\ encoded' = Append(encoded, 10 * DigitVal(buffer[1]) + DigitVal(code[pos]))]_vars

\* a pass over three digits has returned: the pair was flushed, the third
\* digit was pending at the end of the input, and the buffer is empty again
C19_Witness ==
    /\ pc = "built"
    /\ code = <<"1", "9", "1">>
    /\ encoded = <<105, 19, 100, B("1")>>
    /\ buffer = <<>>

\* the charset a pass began in, read off the start code of its list
BeganIn == CHOOSE c \in {"A", "B", "C"} : START_CODES[c] = encoded[1]

\* the list as the loop left it, the pending digit of lines 243-246 appended
BeforeOptimization ==
    IF Len(buffer) = 1 THEN encoded \o <<100, B(buffer[1])>> ELSE encoded

\* the second value of the list is a switch code the state machine emitted:
\* at the first character, or for the only digit of the code
SwitchedAtOnce ==
    \/ /\ code # <<>>
       /\ maybe_switch_charset(code, 1, BeganIn, <<>>).codes # <<>>
    \/ Len(code) = 1 /\ BeganIn = "C" /\ IsDigit(code[1])

\* the charset a switch code leads to
TargetOf(switch) ==
    CASE switch = 99 -> "C"
      [] switch = 100 -> "B"
      [] switch = 101 -> "A"

\* C20: the step that ends a pass rewrites the list only when its second
\* value is a switch code emitted right after the start code, and then puts
\* the start code of the target charset in place of the first two values and
\* leaves the rest alone; in every other case, a data symbol in the second
\* place included, the list is returned as the loop left it.
C20_OptimizeOnlySwitch ==
    [][(pc = "loop" /\ pos > Len(code) /\ pc' = "built") =>
          IF SwitchedAtOnce
          THEN encoded' = <<START_CODES[TargetOf(BeforeOptimization[2])]>>
                            \o SubSeq(BeforeOptimization, 3, Len(BeforeOptimization))
          ELSE encoded' = BeforeOptimization]_vars

(***************************************************************************)
(* The helper methods of Gs1_128_AI, each called once on an object:        *)
(* create_code on an object made from a pair list, the two parsers on      *)
(* Gs1_128_AI('') as tests/test_gs1_128_ai.py calls them.                  *)
(***************************************************************************)
\* longest pair list handed to create_code and written in brackets
MaxAIPairs == 3

\* most digits of a value handed to get_val_for_ai_with_fixed_length_decimals
MaxDigits == 8

\* the empty AI and a fixed-length AI, which need no separator, and two AIs
\* that need one
CreateAIs == {<<>>, Dec(1, 2), Dec(10, 2), Dec(21, 2)}

\* values, two of them ending with the separator character itself
CreateValues == {<<>>, <<"9">>, <<FC_CHAR>>, <<"a", FC_CHAR>>}

CreatePairLists == StrUpTo(CreateAIs \X CreateValues, MaxAIPairs)

DecimalAIs == {Dec(310, 3), Dec(337, 3)}

\* the numeral 123... of m digits
Numeral(m) == [i \in 1..m |-> DigitChars[(i % 10) + 1]]

\* every numeral of up to MaxDigits digits, alone and with a '.' at every
\* place, and two values that are no numbers
DecimalValues ==
    {Numeral(m) : m \in 0..MaxDigits}
        \cup UNION {{SubSeq(Numeral(m), 1, k) \o <<".">> \o SubSeq(Numeral(m), k + 1, m) :
                        k \in 0..m} : m \in 0..MaxDigits}
        \cup {<<"6", "a">>, <<"1", ".", "2", ".", "3">>}

\* AIs and values without a parenthesis, the empty ones included
BracketPairs == {<<>>, Dec(1, 2), <<"a">>} \X {<<>>, <<"9">>, <<"a", "/">>}

BracketPairLists == StrUpTo(BracketPairs, MaxAIPairs)

\* the string '(AI1)value1(AI2)value2...' of a list of pairs
RECURSIVE Bracketed(_)
Bracketed(pairs) ==
    IF pairs = <<>> THEN <<>>
    ELSE <<"(">> \o pairs[1][1] \o <<")">> \o pairs[1][2] \o Bracketed(Tail(pairs))

\* the loop of get_hri_text over the pairs from position i on
RECURSIVE get_hri_text_loop(_, _, _, _, _)
get_hri_text_loop(ai_value_, sorted_ais_, i, text_with, text_without) ==
    IF i > Len(ai_value_)
    THEN [err |-> "", text_with |-> text_with, text_without |-> text_without]
    ELSE IF ai_value_[i].none
    THEN [err |-> "TypeError", text_with |-> text_with, text_without |-> text_without]
    ELSE IF Len(ai_value_[i].items) # 2
    THEN [err |-> "ValueError", text_with |-> text_with, text_without |-> text_without]
    ELSE LET ai == ai_value_[i].items[1]
             val == ai_value_[i].items[2]
         IN  IF sorted_ais_ /\ ~is_fnc1_required(ai)
             THEN get_hri_text_loop(ai_value_, sorted_ais_, i + 1, text_with,
                                    text_without \o <<"(">> \o ai \o <<")">> \o val)
             ELSE get_hri_text_loop(ai_value_, sorted_ais_, i + 1,
                                    text_with \o <<"(">> \o ai \o <<")">> \o val,
                                    text_without)

\* a get_hri_text that writes the pairs in input order whatever the flag
get_hri_text_in_input_order(ai_value_, sorted_ais_) ==
    IF ai_value_.none THEN [err |-> "TypeError", text |-> <<>>]
    ELSE With(get_hri_text_loop(ai_value_.items, FALSE, 1, <<>>, <<>>), LAMBDA acc :
             [err |-> acc.err, text |-> IF acc.err # "" THEN <<>> ELSE acc.text_with])

\* Gs1_128_AI.get_hri_text on an object with the fields ai_value and
\* sorted_ais: the text, or the exception raised; iterating over
\* ai_value = None raises TypeError
get_hri_text(ai_value_, sorted_ais_) ==
    IF ai_value_.none THEN [err |-> "TypeError", text |-> <<>>]
    ELSE With(get_hri_text_loop(ai_value_.items, sorted_ais_, 1, <<>>, <<>>), LAMBDA acc :
             [err |-> acc.err,
              text |-> IF acc.err # "" THEN <<>> ELSE acc.text_without \o acc.text_with])

\* self.create_code() on an object with the fields ai_value and sorted_ais
self_create_code(ai_value_, sorted_ais_) ==
    IF ai_value_.none THEN [err |-> "TypeError", code |-> <<>>]
    ELSE create_code(ai_value_.items, sorted_ais_)

\* pair lists of objects whose text is asked for: a value with a
\* parenthesis and one that is the separator character among them
HriPairLists ==
    StrUpTo({Dec(1, 2), Dec(10, 2), Dec(21, 2)} \X {<<>>, <<"9">>, <<"(", "a">>, <<FC_CHAR>>},
            MaxAIPairs)

\* AIs handed to get_code_and_val: fixed-length ones, three of them date
\* AIs, a variable-length one, and names of both name tables
PairAIs ==
    {Dec(1, 2), Dec(11, 2), Dec(17, 2), Dec(20, 2), Dec(10, 2),
     <<"G", "T", "I", "N">>, <<"P", "R", "O", "D", "_", "D", "A", "T", "E">>,
     <<"S", "E", "R", "I", "A", "L">>,
     <<"N", "E", "T", "_", "W", "E", "I", "G", "H", "T", "_", "M">>,
     <<"K", "G", "_", "P", "E", "R", "_", "M", "2">>,
     Dec(310, 3), Dec(3102, 4), Dec(3920, 4), Dec(99, 2)}

\* values of the lengths the fixed-length table names and of other lengths
PairValues == {Numeral(m) : m \in {0, 2, 4, 6, 14}} \cup {<<"2", "4", "1", "3", "0", "1">>}

\* pairs given once as a list and once written in brackets: a decimal-scaled
\* AI with a decimal and with an integer value, an AI by its name, and AIs
\* that no rule changes
BothFormPairs ==
    {<<Dec(310, 3), <<"6", ".", "1", "2", "3", "4", "5">>>>,
     <<Dec(310, 3), <<"2", "3", "4", "5", "6">>>>,
     <<<<"G", "T", "I", "N">>, <<"1", "2">>>>,
     <<Dec(1, 2), <<"1", "2">>>>,
     <<Dec(10, 2), <<"9">>>>}

BothFormLists == StrUpTo(BothFormPairs, MaxPairs) \ {<<>>}

\* the pairs of the sorted-AI example: a GTIN, two dates and a serial number
SerialLastPairs ==
    <<<<Dec(1, 2), <<"0", "8", "7", "2", "0", "2", "9", "9", "9", "2", "7", "4", "6", "9">>>>,
      <<Dec(11, 2), <<"2", "4", "0", "6", "2", "1">>>>,
      <<Dec(17, 2), <<"2", "5", "0", "6", "2", "1">>>>,
      <<Dec(21, 2), <<"x", "y", "z">>>>>>

\* pair lists with an AI given as a 4-digit code of the decimal-scaled family
FourDigitLists ==
    {<<<<Dec(3102, 4), Numeral(6)>>>>,
     <<<<Dec(1, 2), Numeral(14)>>, <<Dec(3102, 4), Numeral(6)>>>>,
     <<<<Dec(3920, 4), Numeral(4)>>, <<Dec(10, 2), <<"a">>>>>>}

\* the strings of up to MaxLen characters that check_if_code_correct accepts
AcceptedStrings ==
    {b \in StrUpTo({"(", ")", "a", "1"}, MaxLen) : check_if_code_correct(b)}

InitAI ==
    \/ \E b \in AcceptedStrings, s \in BOOLEAN :
           /\ Constructed("Gs1_128_AI", Gs1_128_AI_init_str(b, s))
           /\ call = [NoCall EXCEPT !.op = "accepted", !.str = b]
    \/ \E l \in FourDigitLists, s \in BOOLEAN :
           /\ Constructed("Gs1_128_AI", Gs1_128_AI_init_list(l, s))
           /\ call = [NoCall EXCEPT !.op = "create_code", !.pairs = l]
    \/ \E s \in BOOLEAN :
           /\ Constructed("Gs1_128_AI", Gs1_128_AI_init_list(SerialLastPairs, s))
           /\ call = [NoCall EXCEPT !.op = "create_code", !.pairs = SerialLastPairs]
    \/ \E l \in BothFormLists, s \in BOOLEAN :
           /\ Constructed("Gs1_128_AI", Gs1_128_AI_init_str(Bracketed(l), s))
           /\ call = [NoCall EXCEPT !.op = "create_code", !.pairs = l, !.str = Bracketed(l)]
    \/ \E l \in HriPairLists, s \in BOOLEAN :
           /\ Constructed("Gs1_128_AI", Gs1_128_AI_init_list(l, s))
           /\ call = [NoCall EXCEPT !.op = "get_hri_text", !.pairs = l]
    \/ \E a \in PairAIs, v \in PairValues :
           /\ Constructed("Gs1_128_AI", Gs1_128_AI_init_str(<<>>, TRUE))
           /\ call = [NoCall EXCEPT !.op = "get_code_and_val", !.ai = a, !.val = v]
    \/ \E l \in CreatePairLists, s \in BOOLEAN :
           /\ Constructed("Gs1_128_AI", Gs1_128_AI_init_list(l, s))
           /\ call = [NoCall EXCEPT !.op = "create_code", !.pairs = l]
    \/ \E a \in DecimalAIs, v \in DecimalValues :
           /\ Constructed("Gs1_128_AI", Gs1_128_AI_init_str(<<>>, TRUE))
           /\ call = [NoCall EXCEPT !.op = "decimals", !.ai = a, !.val = v]
    \/ \E l \in BracketPairLists :
           /\ Constructed("Gs1_128_AI", Gs1_128_AI_init_str(<<>>, TRUE))
           /\ call = [NoCall EXCEPT !.op = "brackets", !.pairs = l, !.str = Bracketed(l)]

\* self.create_code(); iterating over ai_value = None raises TypeError
CallCreateCode ==
    /\ raised = ""
    /\ call.op = "create_code"
    /\ ~call.done
    /\ call' = [call EXCEPT
                   !.done = TRUE,
                   !.result = IF ai_value.none THEN [err |-> "TypeError", code |-> <<>>]
                              ELSE create_code(ai_value.items, sorted_ais)]
    /\ UNCHANGED object

\* self.get_val_for_ai_with_fixed_length_decimals(ai, val)
CallDecimals ==
    /\ raised = ""
    /\ call.op = "decimals"
    /\ ~call.done
    /\ call' = [call EXCEPT
                   !.done = TRUE,
                   !.result = get_val_for_ai_with_fixed_length_decimals(call.ai, call.val)]
    /\ UNCHANGED object

\* Gs1_128_AI.get_ai_and_vals_from_brackets(str)
CallBrackets ==
    /\ raised = ""
    /\ call.op = "brackets"
    /\ ~call.done
    /\ call' = [call EXCEPT
                   !.done = TRUE,
                   !.result = Tuple(get_ai_and_vals_from_brackets(call.str))]
    /\ UNCHANGED object

\* Gs1_128_AI.get_ai_and_vals_from_brackets(str) for the string the object
\* was to be made from; the method is static and needs no object
CallBracketsOfAccepted ==
    /\ call.op = "accepted"
    /\ ~call.done
    /\ call' = [call EXCEPT
                   !.done = TRUE,
                   !.result = Tuple(get_ai_and_vals_from_brackets(call.str))]
    /\ UNCHANGED object

\* self.get_code_and_val(ai, val)
CallGetCodeAndVal ==
    /\ raised = ""
    /\ call.op = "get_code_and_val"
    /\ ~call.done
    /\ call' = [call EXCEPT !.done = TRUE, !.result = get_code_and_val(call.ai, call.val)]
    /\ UNCHANGED object

\* self.get_hri_text()
CallGetHriText ==
    /\ raised = ""
    /\ call.op = "get_hri_text"
    /\ ~call.done
    /\ call' = [call EXCEPT !.done = TRUE, !.result = get_hri_text(ai_value, sorted_ais)]
    /\ UNCHANGED object

NextAI ==
    CallCreateCode \/ CallDecimals \/ CallBrackets \/ CallGetCodeAndVal \/ CallGetHriText
        \/ CallBracketsOfAccepted

SpecAI == InitAI /\ [][NextAI]_vars

(***************************************************************************)
(* The claims about the helper methods, checked under SpecAI.              *)
(***************************************************************************)
RECURSIVE Flat(_)
Flat(strs) == IF strs = <<>> THEN <<>> ELSE Head(strs) \o Flat(Tail(strs))

NeedsSeparator(pair) == pair.items[1] \in AI_WITH_FNC1

\* AI and value of a pair, followed by the separator when asked for
Field(pair, separated) ==
    pair.items[1] \o pair.items[2] \o (IF separated THEN <<FC_CHAR>> ELSE <<>>)

\* the pairs in the order and with the separators C8 states, before the
\* trailing separator is removed
Laid(pairs, sorted) ==
    IF sorted
    THEN Flat([i \in 1..Len(SelectSeq(pairs, LAMBDA p : ~NeedsSeparator(p))) |->
                  Field(SelectSeq(pairs, LAMBDA p : ~NeedsSeparator(p))[i], FALSE)])
         \o Flat([i \in 1..Len(SelectSeq(pairs, NeedsSeparator)) |->
                     Field(SelectSeq(pairs, NeedsSeparator)[i], TRUE)])
    ELSE Flat([i \in 1..Len(pairs) |-> Field(pairs[i], NeedsSeparator(pairs[i]))])

EndsWithSeparator(s) == s # <<>> /\ s[Len(s)] = FC_CHAR

Stripped(s) == IF EndsWithSeparator(s) THEN SubSeq(s, 1, Len(s) - 1) ELSE s

\* what C8 states of a finished create_code call
CreateCodeAsStated ==
    /\ call.result.err = ""
    /\ call.result.code = <<FNC1_CHAR>> \o Stripped(Laid(ai_value.items, sorted_ais))
    /\ ~EndsWithSeparator(Tail(call.result.code))

CreateCodeDone == call.op = "create_code" /\ call.done

\* no AI and no value of the object holds the separator character
NoSeparatorInPairs ==
    \A i \in 1..Len(ai_value.items) :
        /\ FC_CHAR \notin Range(ai_value.items[i].items[1])
        /\ FC_CHAR \notin Range(ai_value.items[i].items[2])

\* C8, for pairs that do not hold the separator character: create_code
\* returns FNC1, then (sorted) the pairs without separator in input order and
\* after them the pairs with separator, each followed by it, or (unsorted)
\* all pairs in input order with the separator after each pair that needs it,
\* the trailing separator removed; the string after FNC1 never ends with one.
C8_CreateCode ==
    (CreateCodeDone /\ NoSeparatorInPairs) => CreateCodeAsStated

\* sorting has moved a pair over another one and a separator was removed
C8_Witness ==
    /\ CreateCodeDone
    /\ NoSeparatorInPairs
    /\ sorted_ais
    /\ Len(ai_value.items) >= 2
    /\ NeedsSeparator(ai_value.items[1])
    /\ ~NeedsSeparator(ai_value.items[2])
    /\ EndsWithSeparator(Laid(ai_value.items, sorted_ais))

\* C8 as stated, for all pairs: the same of every finished create_code call.
C8_CreateCodeAnyPairs ==
    CreateCodeDone => CreateCodeAsStated

DecimalsDone == call.op = "decimals" /\ call.done

\* digits with at most one '.', and a digit among them
IsNumber(val) ==
    /\ \A i \in 1..Len(val) : val[i] \in Range(DigitChars) \cup {"."}
    /\ Cardinality({i \in 1..Len(val) : val[i] = "."}) <= 1
    /\ \E i \in 1..Len(val) : val[i] \in Range(DigitChars)

\* the place of the '.' in val
DotAt(val) == CHOOSE i \in 1..Len(val) : val[i] = "."

\* the first six characters of s followed by zeros
SixOf(s) == [i \in 1..6 |-> IF i <= Len(s) THEN s[i] ELSE "0"]

\* the AI and the value C9 states for the 3-digit AI ai and the value val;
\* main has DotAt(val) - 1 digits
DecimalsAsStated(ai, val) ==
    IF ~IsNumber(val) THEN <<Append(ai, "0"), val>>
    ELSE IF "." \notin Range(val)
    THEN <<Append(ai, "0"),
           IF Len(val) < 6 THEN [i \in 1..(6 - Len(val)) |-> "0"] \o val ELSE SixOf(val)>>
    ELSE IF DotAt(val) - 1 > 6
    THEN <<Append(ai, "0"), SixOf(val)>>
    ELSE <<Append(ai, DigitChars[(6 - (DotAt(val) - 1)) + 1]),
           SixOf(SelectSeq(val, LAMBDA c : c # "."))>>

\* C9: for a 3-digit decimal-scaled AI and a value of digits with at most
\* one '.', get_val_for_ai_with_fixed_length_decimals returns a 4-digit AI
\* and, for a number, 6 digits: an integer padded on the left or cut, 4th
\* digit 0; a decimal padded on the right or cut, 4th digit the number of
\* fraction digits among the 6 (0 when main alone has more than 6); a value
\* that is no number is returned unchanged with AI + '0'.
C9_Decimals ==
    DecimalsDone =>
        /\ call.result = Tuple(DecimalsAsStated(call.ai, call.val))
        /\ Len(call.result.items[1]) = 4
        /\ IsNumber(call.val) =>
               /\ Len(call.result.items[2]) = 6
               /\ \A i \in 1..6 : call.result.items[2][i] \in Range(DigitChars)

\* a decimal value was cut to six digits, fraction digits among them
C9_Witness ==
    /\ DecimalsDone
    /\ IsNumber(call.val)
    /\ "." \in Range(call.val)
    /\ Len(call.val) > 7
    /\ DotAt(call.val) \in 2..6
    /\ call.result.items[1][4] # "0"

BracketsDone == call.op = "brackets" /\ call.done

\* C10: get_ai_and_vals_from_brackets applied to '(AI1)value1(AI2)value2...'
\* written from pairs without a parenthesis returns those pairs, as 2-tuples,
\* in the same order.
C10_BracketRoundTrip ==
    BracketsDone =>
        call.result = Tuple([i \in 1..Len(call.pairs) |-> Tuple(call.pairs[i])])

\* a string of several pairs, one with empty AI or value, was parsed
C10_Witness ==
    /\ BracketsDone
    /\ Len(call.pairs) >= 2
    /\ call.pairs[1][2] = <<>>
    /\ call.pairs[2][1] # <<>>
    /\ Len(call.result.items) = Len(call.pairs)

GetCodeAndValDone == call.op = "get_code_and_val" /\ call.done

\* the AI code a name of AI_NAME_TO_CODE stands for, any other AI itself
Resolved(ai) == IF ai \in DOMAIN AI_NAME_TO_CODE THEN AI_NAME_TO_CODE[ai] ELSE ai

\* C11: for an AI that is, after name resolution, in the fixed-length table,
\* date AIs included, get_code_and_val raises nothing and returns the AI code
\* with the value unmodified, whatever the value's length.
C11_FixedLengthNonFatal ==
    (GetCodeAndValDone /\ Resolved(call.ai) \in DOMAIN AI_VS_FIXED_LENGTH)
        => call.result = [err |-> "", ret |-> Tuple(<<Resolved(call.ai), call.val>>)]

\* an AI code of three digits of the decimal-scaled family
ThreeDigitDecimal(ai) == Len(ai) = 3 /\ ai \in AI_VS_FIXED_LENGTH_WITH_DECIMAL

\* the pair list of the call holds an AI that is a 4-digit code of the
\* decimal-scaled family
HasFourDigitDecimal ==
    \E i \in 1..Len(call.pairs) :
        /\ Len(call.pairs[i][1]) = 4
        /\ Prefix(call.pairs[i][1], 3) \in AI_VS_FIXED_LENGTH_WITH_DECIMAL

\* C21: for an AI that is, after name resolution, neither a 3-digit
\* decimal-scaled code nor in the fixed-length table, get_code_and_val returns
\* the pair unchanged, a 4-digit code of the decimal-scaled family with a
\* numeric value included, and a pair list holding such a code is encoded:
\* the constructor raises nothing.
C21_PassThrough ==
    /\ (GetCodeAndValDone /\ Resolved(call.ai) \notin DOMAIN AI_VS_FIXED_LENGTH
            /\ ~ThreeDigitDecimal(Resolved(call.ai)))
          => call.result = [err |-> "", ret |-> Tuple(<<Resolved(call.ai), call.val>>)]
    /\ (call.op = "create_code" /\ call.str = <<>> /\ HasFourDigitDecimal) => raised = ""

\* C23: a string that check_if_code_correct accepts is parsed into tuples
\* of two fields only, and the constructor, which runs create_code on them,
\* raises nothing.
C23_AcceptedParses ==
    call.op = "accepted" =>
        /\ raised = ""
        /\ call.done =>
              \A i \in 1..Len(call.result.items) : Len(call.result.items[i].items) = 2

HriDone == call.op = "get_hri_text" /\ call.done

\* the pairs in the order in which create_code writes them
Written(pairs, sorted) ==
    IF sorted
    THEN SelectSeq(pairs, LAMBDA p : ~NeedsSeparator(p)) \o SelectSeq(pairs, NeedsSeparator)
    ELSE pairs

\* '(AI)value' of a pair
InBrackets(pair) == <<"(">> \o pair.items[1] \o <<")">> \o pair.items[2]

\* the text is '(AI)value' of every pair in the order of create_code, which
\* writes AI and value of the same pairs with their separators
HriInOrderOfCode ==
    /\ call.result.err = ""
    /\ call.result.text =
           Flat([i \in 1..Len(ai_value.items) |->
                    InBrackets(Written(ai_value.items, sorted_ais)[i])])
    /\ NoSeparatorInPairs =>
           create_code(ai_value.items, sorted_ais).code =
               <<FNC1_CHAR>> \o Stripped(Flat([i \in 1..Len(ai_value.items) |->
                   Field(Written(ai_value.items, sorted_ais)[i],
                         NeedsSeparator(Written(ai_value.items, sorted_ais)[i]))]))

\* the text without parentheses is the logical string without its prefix
\* and separators
HriWithoutParentheses ==
    SelectSeq(call.result.text, LAMBDA c : c \notin {"(", ")"})
        = SelectSeq(Tail(create_code(ai_value.items, sorted_ais).code),
                    LAMBDA c : c # FC_CHAR)

NoParenthesisInPairs ==
    \A i \in 1..Len(ai_value.items) :
        /\ {"(", ")"} \cap Range(ai_value.items[i].items[1]) = {}
        /\ {"(", ")"} \cap Range(ai_value.items[i].items[2]) = {}

\* C14, the last part for pairs that hold neither a parenthesis nor the
\* separator character: get_hri_text renders each pair as '(AI)value' in the
\* order in which create_code writes the pairs, and removing the
\* parentheses gives the logical string without FNC1 prefix and separators.
C14_HriFollowsCode ==
    HriDone =>
        /\ HriInOrderOfCode
        /\ (NoSeparatorInPairs /\ NoParenthesisInPairs) => HriWithoutParentheses

\* sorting has moved a pair over another one in the text
C14_Witness ==
    /\ HriDone
    /\ sorted_ais
    /\ NoSeparatorInPairs
    /\ NoParenthesisInPairs
    /\ Len(ai_value.items) >= 2
    /\ NeedsSeparator(ai_value.items[1])
    /\ ~NeedsSeparator(ai_value.items[2])
    /\ call.result.text # <<>>

\* C14 as stated, for every pair list: the same with the last part of every
\* finished get_hri_text call.
C14_HriFollowsCodeAnyPairs ==
    HriDone => (HriInOrderOfCode /\ HriWithoutParentheses)

\* C15: the logical string of an object made from the bracket string of
\* pairs is the logical string of an object made from the list of the same
\* pairs, the per-pair rules applied in either form.
C15_BothFormsAlike ==
    (CreateCodeDone /\ call.str # <<>>) =>
        /\ call.result.err = ""
        /\ call.result.code = Gs1_128_AI_init_list(call.pairs, sorted_ais).code

\* create_code has run on the sorted object of the example
SerialLastDone == CreateCodeDone /\ sorted_ais /\ call.pairs = SerialLastPairs /\ call.str = <<>>

\* the places of the separator character in the logical string after FNC1
SeparatorsAt(code_) == {i \in 2..Len(code_) : code_[i] = FC_CHAR}

\* C16, with no separator in place of one: for the pairs 01, 11, 17, 21 and
\* sorted_ais true the logical string is FNC1 followed by the four fields
\* without any separator character, the only field that needs one being
\* the last.
C16_SerialLast ==
    SerialLastDone =>
        /\ call.result.err = ""
        /\ call.result.code =
               <<FNC1_CHAR>> \o Flat([i \in 1..4 |->
                                         SerialLastPairs[i][1] \o SerialLastPairs[i][2]])
        /\ SeparatorsAt(call.result.code) = {}

C16_Witness == SerialLastDone /\ Len(call.result.code) = 38

\* C16 as stated: the string holds the separator character exactly once
\* after FNC1, between the field of 17 and the field of 21, none at its end.
C16_OneSeparator ==
    SerialLastDone =>
        /\ call.result.err = ""
        /\ SeparatorsAt(call.result.code) = {1 + 16 + 8 + 8 + 1}
        /\ call.result.code[Len(call.result.code)] # FC_CHAR

\* the symbolic names of the two name tables and the codes they stand for
NameTable ==
    [name \in DOMAIN AI_NAME_TO_CODE \cup
                  {n \in DOMAIN AI_WITH_DECIMAL_VALS : ~AllDigits(n)} |->
        IF name \in DOMAIN AI_NAME_TO_CODE THEN AI_NAME_TO_CODE[name]
        ELSE AI_WITH_DECIMAL_VALS[name]]

\* C17: get_code_and_val replaces every symbolic name of AI_NAME_TO_CODE and
\* of AI_WITH_DECIMAL_VALS by its numeric code before the other rules, so
\* the AI it returns is numeric and begins with that code.
C17_NamesResolved ==
    (GetCodeAndValDone /\ call.ai \in DOMAIN NameTable /\ call.result.err = "") =>
        /\ ~call.result.ret.none
        /\ AllDigits(call.result.ret.items[1])
        /\ Prefix(call.result.ret.items[1], Len(NameTable[call.ai])) = NameTable[call.ai]

(***************************************************************************)
(* A Gs1_128_AI object in use: set_sorted_ais, an assignment to            *)
(* sorted_ais, get_fullcode and render, which recomputes the code and runs *)
(* a build pass.                                                           *)
(***************************************************************************)
\* values handed to a Gs1_128_AI that is rendered: digits, a character of
\* charset B only and one of charset A only
RenderValues == {<<"9">>, <<"1", "9">>, <<"9", "a">>, <<"SOH">>}

RenderPairLists == StrUpTo(InputAIs \X RenderValues, MaxPairs)

InitRender ==
    /\ call = NoCall
    /\ \/ \E l \in RenderPairLists, s \in BOOLEAN :
              Constructed("Gs1_128_AI", Gs1_128_AI_init_list(l, s))
       \/ \E b \in BracketInputs, s \in BOOLEAN :
              Constructed("Gs1_128_AI", Gs1_128_AI_init_str(b, s))

passes == <<charset, buffer, pc, pos, encoded, returns, symbols>>

\* set_sorted_ais(value): lines 359-362; 'not self.literal_code' holds for
\* None and for the empty literal
SetSortedAis ==
    /\ raised = ""
    /\ pc = "idle"
    /\ \E value \in BOOLEAN :
           /\ sorted_ais' = value
           /\ IF literal_code.none \/ literal_code.val = <<>>
              THEN With(self_create_code(ai_value, value), LAMBDA r :
                       /\ code' = (IF r.err = "" THEN r.code ELSE code)
                       /\ call' = [NoCall EXCEPT !.op = "set_sorted_ais", !.done = TRUE,
                                                 !.result = [err |-> r.err]])
              ELSE /\ code' = code
                   /\ call' = [NoCall EXCEPT !.op = "set_sorted_ais", !.done = TRUE,
                                             !.result = [err |-> ""]]
    /\ UNCHANGED <<kind, raised, literal_code, ai_value, passes, concurrent>>

\* obj.sorted_ais = value, the attribute assigned directly
AssignSortedAis ==
    /\ raised = ""
    /\ pc = "idle"
    /\ \E value \in BOOLEAN : sorted_ais' = value
    /\ UNCHANGED <<kind, raised, code, literal_code, ai_value, passes, call, concurrent>>

\* get_fullcode(): lines 485-487
GetFullcode ==
    /\ raised = ""
    /\ pc = "idle"
    /\ call' = [NoCall EXCEPT !.op = "get_fullcode", !.done = TRUE,
                              !.result = get_hri_text(ai_value, sorted_ais)]
    /\ UNCHANGED object

\* render(): line 515 recomputes self.code, then Barcode.render calls
\* build(), which enters _build
RenderStart ==
    /\ raised = ""
    /\ pc = "idle"
    /\ Len(returns) < MaxPasses
    /\ With(self_create_code(ai_value, sorted_ais), LAMBDA r :
           IF r.err = ""
           THEN /\ code' = r.code
                /\ pc' = "loop"
                /\ pos' = 1
                /\ encoded' = <<START_CODES[charset]>>
                /\ UNCHANGED returns
           ELSE /\ returns' = Append(returns, [err |-> r.err, encoded |-> <<>>])
                /\ UNCHANGED <<code, pc, pos, encoded>>)
    /\ UNCHANGED <<kind, raised, sorted_ais, literal_code, ai_value, charset, buffer,
                   symbols, call, concurrent>>

NextRender ==
    SetSortedAis \/ AssignSortedAis \/ GetFullcode \/ RenderStart
        \/ BuildChar \/ BuildEnd \/ Build

SpecRender == InitRender /\ [][NextRender]_vars

(***************************************************************************)
(* The claims about an object in use, checked under SpecRender.            *)
(***************************************************************************)
\* the object was made from a string with as many '(' as ')' missing
MalformedLiteral ==
    /\ kind = "Gs1_128_AI"
    /\ ~literal_code.none
    /\ Count(literal_code.val, "(") # Count(literal_code.val, ")")

\* C12: a string whose counts of '(' and ')' differ is kept unmodified as
\* the code, and every build, render, set_sorted_ais and get_fullcode call
\* on the object completes without error.
C12_LiteralUsable ==
    MalformedLiteral =>
        /\ raised = ""
        /\ ~check_if_code_correct(literal_code.val)
        /\ code = literal_code.val
        /\ \A i \in 1..Len(returns) : returns[i].err = ""
        /\ call.done => call.result.err = ""

\* a whole build pass over code_ from position pos_ on
RECURSIVE PassFrom(_, _, _, _, _)
PassFrom(code_, pos_, charset_, buffer_, encoded_) ==
    IF pos_ > Len(code_) THEN build_end(charset_, buffer_, encoded_)
    ELSE With(build_char(code_, pos_, charset_, buffer_, encoded_), LAMBDA r :
             IF r.err # "" THEN r
             ELSE PassFrom(code_, pos_ + 1, r.charset, r.buffer, r.encoded))

\* the first pass of a freshly constructed Gs1_128_AI with the logical
\* string code_
FreshPass(code_) ==
    PassFrom(code_, 1, guess_charset(Rest(code_)), <<>>,
             <<START_CODES[guess_charset(Rest(code_))]>>)

\* C13: whatever changes of sorted_ais and renders came before, the list a
\* render encodes is the list of a freshly constructed Gs1_128_AI with the
\* same pairs and the current flag: the logical string is recomputed and
\* the pass starts from the charset guessed for it.
C13_RenderHonoursFlag ==
    (pc = "built" /\ ~ai_value.none) =>
        /\ code = create_code(ai_value.items, sorted_ais).code
        /\ encoded = FreshPass(code).encoded

(***************************************************************************)
(* Concurrent callers: each thread runs one _build pass on an encoder       *)
(* object; the threads take turns between two rounds of the loop.  The      *)
(* object's _charset and _buffer are instance fields (lines 141-142), the   *)
(* list encoded and the index i are locals of the call.                     *)
(***************************************************************************)
\* the threads and the encoder objects
NumThreads == 2

NumObjects == 2

Threads == 1..NumThreads

Objects == 1..NumObjects

\* codes for the shared objects: all pairs, a pending digit, a switch in the
\* middle, no switch at all
ConcCodes ==
    {<<"1", "9", "1", "9">>, <<"1", "9", "1">>, <<"1", "a">>, <<"a", "SOH">>,
     <<"a", "b">>} \cup LongCodes

\* the single object of the other specifications and its helper call
single ==
    <<kind, raised, code, charset, buffer, sorted_ais, literal_code, ai_value,
      pc, pos, encoded, returns, symbols, call>>

\* no single object is in use
Unused ==
    /\ kind = "none"
    /\ raised = ""
    /\ code = <<>>
    /\ charset = "B"
    /\ buffer = <<>>
    /\ sorted_ais = FALSE
    /\ literal_code = NoStr
    /\ ai_value = None
    /\ pc = "idle"
    /\ pos = 0
    /\ encoded = <<>>
    /\ returns = <<>>
    /\ symbols = <<>>
    /\ call = NoCall

\* Code128(c) for each object, and each thread about to call _build on one
InitConc ==
    /\ Unused
    /\ \E cs \in [Objects -> ConcCodes] :
           objects = [o \in Objects |->
                        With(Code128_init(cs[o]), LAMBDA obj :
                            [code |-> obj.code, charset |-> obj.charset,
                             buffer |-> obj.buffer])]
    /\ \E on \in [Threads -> Objects] :
           threads = [t \in Threads |->
                        [obj |-> on[t], pc |-> "idle", pos |-> 0, encoded |-> <<>>,
                         err |-> ""]]

\* thread t enters _build: line 236
ThreadStart(t) ==
    /\ threads[t].pc = "idle"
    /\ threads' = [threads EXCEPT
                     ![t].pc = "loop",
                     ![t].pos = 1,
                     ![t].encoded = <<START_CODES[objects[threads[t].obj].charset]>>]
    /\ UNCHANGED <<single, objects>>

\* thread t runs one round of the loop: lines 237-242
ThreadChar(t) ==
    /\ threads[t].pc = "loop"
    /\ threads[t].pos <= Len(objects[threads[t].obj].code)
    /\ With(build_char(objects[threads[t].obj].code, threads[t].pos,
                       objects[threads[t].obj].charset, objects[threads[t].obj].buffer,
                       threads[t].encoded),
            LAMBDA r :
                /\ objects' = [objects EXCEPT ![threads[t].obj].charset = r.charset,
                                              ![threads[t].obj].buffer = r.buffer]
                /\ threads' = [threads EXCEPT
                                 ![t].encoded = r.encoded,
                                 ![t].err = r.err,
                                 ![t].pos = IF r.err = "" THEN @ + 1 ELSE @,
                                 ![t].pc = IF r.err = "" THEN @ ELSE "raised"])
    /\ UNCHANGED single

\* the loop of thread t is over: lines 243-248, _build returns
ThreadEnd(t) ==
    /\ threads[t].pc = "loop"
    /\ threads[t].pos > Len(objects[threads[t].obj].code)
    /\ With(build_end(objects[threads[t].obj].charset, objects[threads[t].obj].buffer,
                      threads[t].encoded),
            LAMBDA r :
                /\ objects' = [objects EXCEPT ![threads[t].obj].charset = r.charset,
                                              ![threads[t].obj].buffer = r.buffer]
                /\ threads' = [threads EXCEPT
                                 ![t].encoded = r.encoded,
                                 ![t].err = r.err,
                                 ![t].pc = IF r.err = "" THEN "returned" ELSE "raised"])
    /\ UNCHANGED single

NextConc == \E t \in Threads : ThreadStart(t) \/ ThreadChar(t) \/ ThreadEnd(t)

SpecConc == InitConc /\ [][NextConc]_vars

\* the pass of a thread that has Code128(code_) to itself
LonePass(code_) ==
    PassFrom(code_, 1, guess_charset(code_), <<>>, <<START_CODES[guess_charset(code_)]>>)

\* C22: every thread whose pass has ended, the other thread on the same
\* object or on another one, at any interleaving of the rounds, has returned
\* the list that a lone pass over its object's code returns.
C22_PassesIndependent ==
    \A t \in DOMAIN threads :
        threads[t].pc \in {"returned", "raised"} =>
            /\ threads[t].pc = "returned"
            /\ threads[t].encoded = LonePass(objects[threads[t].obj].code).encoded

====
